---- MODULE Spec2Model ----
(***************************************************************************)
(* The chat backend's HTTP handlers over its three MongoDB collections.    *)
(* The repository holds two revisions of the server that share one         *)
(* database: src/server.js (atomic findOneAndUpdate membership updates,    *)
(* POST/GET /messages) and src/unnamed/part_000 (findOne ... save()        *)
(* membership updates, DELETE /deleteRoom).  A handler that awaits twice   *)
(* is two steps; the request between its awaits is an entry of `inflight`. *)
(*                                                                         *)
(* The database is taken to be reachable and to enforce the two unique     *)
(* indexes the schemas declare.  A Mongoose save() sends only what the     *)
(* handler changed on its copy: a push as $push, an assigned array as $set *)
(* guarded by the version key, both with $inc of the version; a document   *)
(* that no longer matches makes save() throw.  Messages of equal time are  *)
(* returned in collection order.                                           *)
(***************************************************************************)
EXTENDS Naturals, Sequences, FiniteSets, Bags, TLC

\* ---------------------------------------------------------------- inputs
Emails == {"a", "b"}
Passwords == {"p", "q"}
UserNames == {"N"}
RoomNames == {"g"}
Receivers == Emails \cup RoomNames \cup {"h"}
Texts == {"hi"}

\* ---------------------------------------------------------------- bounds
MaxInFlight == 2
MaxVersion == 2
MaxMessages == 2
MaxClock == 1

VARIABLES isConnected, users, rooms, messages, now, inflight, res

vars == <<isConnected, users, rooms, messages, now, inflight, res>>

\* ---------------------------------------------------------------- helpers
Range(s) == {s[i] : i \in 1..Len(s)}

\* Array.prototype.includes
Includes(arr, e) == e \in Range(arr)

\* Array.prototype.push, MongoDB $push
Push(arr, e) == Append(arr, e)

\* $push where $addToSet was meant: appends whether or not the value is there
AddToSetAlways(arr, e) == Append(arr, e)

\* MongoDB $addToSet: appends unless the array already holds the value
AddToSet(arr, e) == IF Includes(arr, e) THEN arr ELSE Append(arr, e)

\* the filter turned round: keeps the e's and drops the rest
PullOthers(arr, e) == SelectSeq(arr, LAMBDA x : x = e)

\* MongoDB $pull and Array.prototype.filter((x) => x !== e): drop every e
Pull(arr, e) == SelectSeq(arr, LAMBDA x : x # e)

\* number of occurrences of e in arr
Count(arr, e) == Cardinality({i \in 1..Len(arr) : arr[i] = e})

RemoveAt(s, i) == SubSeq(s, 1, i - 1) \o SubSeq(s, i + 1, Len(s))

\* the request bag
Add(bag, req) == bag (+) SetToBag({req})
Remove(bag, req) == bag (-) SetToBag({req})
Requests == BagToSet(inflight)
HasCapacity(cap) == BagCardinality(inflight) < cap

\* a request as the route sees it: the room name, or the conversation id, and
\* the email it names ("" where the route takes none)
Request(route, name, email) == [route |-> route, name |-> name, email |-> email]

\* the last reply sent: the request it answers, the status code, the JSON body
Response(req, status, body) == [req |-> req, status |-> status, body |-> body]

\* ---------------------------------------------------------------- Room model
NoDoc == [id |-> 0]

Room(id, name, creator, members, joinRequests, v) ==
  [id |-> id, name |-> name, creator |-> creator, members |-> members,
   joinRequests |-> joinRequests, v |-> v]

\* index of the first room document matching { name }, 0 if none
RoomIndex(name) ==
  IF \E i \in 1..Len(rooms) : rooms[i].name = name
  THEN CHOOSE i \in 1..Len(rooms) :
         /\ rooms[i].name = name
         /\ \A j \in 1..(i - 1) : rooms[j].name # name
  ELSE 0

\* index of the room document with this _id, 0 if none
RoomIndexById(id) ==
  IF \E i \in 1..Len(rooms) : rooms[i].id = id
  THEN CHOOSE i \in 1..Len(rooms) : rooms[i].id = id
  ELSE 0

\* Room.findOne({ name })
RoomFindOne(name) == IF RoomIndex(name) = 0 THEN NoDoc ELSE rooms[RoomIndex(name)]

\* no unique index on Room.name: every insert is accepted
RoomNameAny(name) == TRUE

\* the unique index on Room.name: an insert of a taken name is rejected
RoomNameFree(name) == \A i \in 1..Len(rooms) : rooms[i].name # name

\* _ids in use: stored documents and the documents requests hold
UsedIds ==
  {rooms[i].id : i \in 1..Len(rooms)} \cup
  {r.room.id : r \in {q \in Requests : q.route \in {"requestJoinRoom", "approveJoin"}}}

\* a fresh ObjectId (the least unused one)
NewId == CHOOSE i \in 1..(Cardinality(UsedIds) + 1) :
           i \notin UsedIds /\ \A j \in 1..(i - 1) : j \in UsedIds

\* ---------------------------------------------------------------- connectDB
\* server.js: every handler awaits connectDB() first; the database is reachable
ConnectDB == isConnected' = 1

\* ---------------------------------------------------------------- rooms
\* POST /createRoom up to the lookup: 400 when the name is taken
CreateRoomFind(cap, name, creator) ==
  /\ HasCapacity(cap)
  /\ ConnectDB
  /\ IF RoomFindOne(name) # NoDoc
     THEN /\ res' = Response(Request("createRoom", name, creator), 400, "Room exists")
          /\ inflight' = inflight
     ELSE /\ inflight' = Add(inflight, [route |-> "createRoom", name |-> name, creator |-> creator])
          /\ res' = res
  /\ UNCHANGED <<users, rooms, messages, now>>

\* POST /createRoom from Room.create on: the unique index is the backstop
CreateRoomCreate(req) ==
  /\ req \in Requests /\ req.route = "createRoom"
  /\ inflight' = Remove(inflight, req)
  /\ IF RoomNameFree(req.name)
     THEN /\ rooms' = Append(rooms, Room(NewId, req.name, req.creator, <<req.creator>>, <<>>, 0))
          /\ res' = Response(Request("createRoom", req.name, req.creator), 200, "Room created")
     ELSE /\ rooms' = rooms
          /\ res' = Response(Request("createRoom", req.name, req.creator), 500, "Room creation error")
  /\ UNCHANGED <<isConnected, users, messages, now>>

\* GET /rooms
GetRooms(cap) ==
  /\ HasCapacity(cap)
  /\ ConnectDB
  /\ res' = Response(Request("rooms", "", ""), 200, rooms)
  /\ UNCHANGED <<users, rooms, messages, now, inflight>>

\* server.js POST /requestJoinRoom: one findOneAndUpdate with $addToSet
RequestJoinRoom(cap, roomName, email) ==
  /\ HasCapacity(cap)
  /\ ConnectDB
  /\ LET i == RoomIndex(roomName) IN
       rooms' = IF i = 0 THEN rooms
                ELSE [rooms EXCEPT ![i].joinRequests = AddToSet(@, email)]
  /\ res' = Response(Request("requestJoinRoom", roomName, email), 200, "Request sent")
  /\ UNCHANGED <<users, messages, now, inflight>>

\* server.js POST /approveJoin: one findOneAndUpdate with $addToSet and $pull
ApproveJoin(cap, roomName, email) ==
  /\ HasCapacity(cap)
  /\ ConnectDB
  /\ LET i == RoomIndex(roomName) IN
       rooms' = IF i = 0 THEN rooms
                ELSE [rooms EXCEPT ![i].members = AddToSet(@, email),
                                   ![i].joinRequests = Pull(@, email)]
  /\ res' = Response(Request("approveJoin", roomName, email), 200, "User approved")
  /\ UNCHANGED <<users, messages, now, inflight>>

\* part_000 POST /requestJoinRoom up to room.save(): findOne, the includes
\* test and the push on the loaded document
RequestJoinFind(cap, roomName, email) ==
  /\ HasCapacity(cap)
  /\ LET room == RoomFindOne(roomName) IN
       IF room = NoDoc
       THEN /\ res' = Response(Request("requestJoinRoom", roomName, email), 404, "Room not found")
            /\ inflight' = inflight
       ELSE IF ~Includes(room.joinRequests, email) /\ ~Includes(room.members, email)
       THEN /\ inflight' = Add(inflight, [route |-> "requestJoinRoom", email |-> email, room |-> room])
            /\ res' = res
       ELSE /\ res' = Response(Request("requestJoinRoom", roomName, email), 200, "Request sent")
            /\ inflight' = inflight
  /\ UNCHANGED <<isConnected, users, rooms, messages, now>>

\* part_000 POST /requestJoinRoom, room.save(): the pushed element is sent as
\* $push with $inc of the version key, matched on _id alone
RequestJoinSave(req) ==
  /\ req \in Requests /\ req.route = "requestJoinRoom"
  /\ inflight' = Remove(inflight, req)
  /\ LET i == RoomIndexById(req.room.id) IN
       IF i = 0
       THEN /\ rooms' = rooms
            /\ res' = Response(Request("requestJoinRoom", req.room.name, req.email), 500, "Request error")
       ELSE /\ rooms[i].v < MaxVersion
            /\ rooms' = [rooms EXCEPT ![i].joinRequests = Push(@, req.email),
                                      ![i].v = @ + 1]
            /\ res' = Response(Request("requestJoinRoom", req.room.name, req.email), 200, "Request sent")
  /\ UNCHANGED <<isConnected, users, messages, now>>

\* part_000 POST /approveJoin up to room.save()
ApproveJoinFind(cap, roomName, email) ==
  /\ HasCapacity(cap)
  /\ LET room == RoomFindOne(roomName) IN
       IF room = NoDoc
       THEN /\ res' = Response(Request("approveJoin", roomName, email), 404, "Room not found")
            /\ inflight' = inflight
       ELSE /\ inflight' = Add(inflight, [route |-> "approveJoin", email |-> email, room |-> room])
            /\ res' = res
  /\ UNCHANGED <<isConnected, users, rooms, messages, now>>

\* part_000 POST /approveJoin, room.save(): a changed joinRequests is sent as
\* $set of the whole array, matched on _id and the loaded version; a pushed
\* member as $push; either increments the version; nothing changed sends
\* nothing.  No matching document is an error.
ApproveJoinSave(req) ==
  /\ req \in Requests /\ req.route = "approveJoin"
  /\ inflight' = Remove(inflight, req)
  /\ LET i == RoomIndexById(req.room.id)
         setRequests == Pull(req.room.joinRequests, req.email) # req.room.joinRequests
         pushMember == ~Includes(req.room.members, req.email)
     IN
       IF i = 0 \/ (setRequests /\ rooms[i].v # req.room.v)
       THEN /\ rooms' = rooms
            /\ res' = Response(Request("approveJoin", req.room.name, req.email), 500, "Approve error")
       ELSE IF setRequests \/ pushMember
       THEN /\ rooms[i].v < MaxVersion
            /\ rooms' = [rooms EXCEPT
                 ![i].joinRequests = IF setRequests THEN Pull(req.room.joinRequests, req.email) ELSE @,
                 ![i].members = IF pushMember THEN Push(@, req.email) ELSE @,
                 ![i].v = @ + 1]
            /\ res' = Response(Request("approveJoin", req.room.name, req.email), 200, "Approved")
       ELSE /\ rooms' = rooms
            /\ res' = Response(Request("approveJoin", req.room.name, req.email), 200, "Approved")
  /\ UNCHANGED <<isConnected, users, messages, now>>

\* part_000 DELETE /deleteRoom/:name, Room.deleteOne
DeleteRoomOne(cap, name) ==
  /\ HasCapacity(cap)
  /\ LET i == RoomIndex(name) IN
       rooms' = IF i = 0 THEN rooms ELSE RemoveAt(rooms, i)
  /\ inflight' = Add(inflight, [route |-> "deleteRoom", name |-> name])
  /\ UNCHANGED <<isConnected, users, messages, now, res>>

\* deleteMany({ receiver }) without isRoom: private messages go too
DeleteRoomMessagesAnyKind(req) ==
  /\ req \in Requests /\ req.route = "deleteRoom"
  /\ inflight' = Remove(inflight, req)
  /\ messages' = SelectSeq(messages, LAMBDA m : m.receiver # req.name)
  /\ res' = Response(Request("deleteRoom", req.name, ""), 200, "Room deleted")
  /\ UNCHANGED <<isConnected, users, rooms, now>>

\* deleteMany({ isRoom: true }) without receiver: every room's messages go
DeleteRoomMessagesAnyRoom(req) ==
  /\ req \in Requests /\ req.route = "deleteRoom"
  /\ inflight' = Remove(inflight, req)
  /\ messages' = SelectSeq(messages, LAMBDA m : m.isRoom # TRUE)
  /\ res' = Response(Request("deleteRoom", req.name, ""), 200, "Room deleted")
  /\ UNCHANGED <<isConnected, users, rooms, now>>

\* DELETE /deleteRoom/:name, Message.deleteMany and the reply
DeleteRoomMessages(req) ==
  /\ req \in Requests /\ req.route = "deleteRoom"
  /\ inflight' = Remove(inflight, req)
  /\ messages' = SelectSeq(messages, LAMBDA m : ~(m.receiver = req.name /\ m.isRoom = TRUE))
  /\ res' = Response(Request("deleteRoom", req.name, ""), 200, "Room deleted")
  /\ UNCHANGED <<isConnected, users, rooms, now>>

\* ---------------------------------------------------------------- users
\* bcrypt.hash(password, 10) and bcrypt.compare(password, hash)
Hash(password) == <<"bcrypt", password>>
Compare(password, hash) == hash = Hash(password)

\* jwt.sign({ email }, secret)
Sign(email) == <<"jwt", email>>

NoUser == [email |-> ""]

UserIndex(email) ==
  IF \E i \in 1..Len(users) : users[i].email = email
  THEN CHOOSE i \in 1..Len(users) :
         /\ users[i].email = email
         /\ \A j \in 1..(i - 1) : users[j].email # email
  ELSE 0

\* User.findOne({ email })
UserFindOne(email) == IF UserIndex(email) = 0 THEN NoUser ELSE users[UserIndex(email)]

\* no unique index on User.email: every insert is accepted
UserEmailAny(email) == TRUE

\* the unique index on User.email: an insert of a taken email is rejected
UserEmailFree(email) == \A i \in 1..Len(users) : users[i].email # email

\* POST /register up to bcrypt.hash: 400 when the email is registered
RegisterFind(cap, name, email, password) ==
  /\ HasCapacity(cap)
  /\ ConnectDB
  /\ IF UserFindOne(email) # NoUser
     THEN /\ res' = Response(Request("register", "", email), 400, "User already exists")
          /\ inflight' = inflight
     ELSE /\ inflight' = Add(inflight, [route |-> "register", name |-> name, email |-> email,
                                        password |-> Hash(password)])
          /\ res' = res
  /\ UNCHANGED <<users, rooms, messages, now>>

\* POST /register from User.create on
RegisterCreate(req) ==
  /\ req \in Requests /\ req.route = "register"
  /\ inflight' = Remove(inflight, req)
  /\ IF UserEmailFree(req.email)
     THEN /\ users' = Append(users, [name |-> req.name, email |-> req.email,
                                     password |-> req.password, avatar |-> ""])
          /\ res' = Response(Request("register", "", req.email), 200, "Registered successfully")
     ELSE /\ users' = users
          /\ res' = Response(Request("register", "", req.email), 500, "Register error")
  /\ UNCHANGED <<isConnected, rooms, messages, now>>

\* POST /login
Login(cap, email, password) ==
  /\ HasCapacity(cap)
  /\ ConnectDB
  /\ LET user == UserFindOne(email) IN
       res' = IF user = NoUser THEN Response(Request("login", "", email), 400, "User not found")
              ELSE IF ~Compare(password, user.password) THEN Response(Request("login", "", email), 400, "Wrong password")
              ELSE Response(Request("login", "", email), 200, [token |-> Sign(email), email |-> user.email,
                                  name |-> user.name, avatar |-> user.avatar])
  /\ UNCHANGED <<users, rooms, messages, now, inflight>>

\* GET /users: the name, email and avatar of every user
GetUsers(cap) ==
  /\ HasCapacity(cap)
  /\ ConnectDB
  /\ res' = Response(Request("users", "", ""), 200, [i \in 1..Len(users) |->
               [name |-> users[i].name, email |-> users[i].email, avatar |-> users[i].avatar]])
  /\ UNCHANGED <<users, rooms, messages, now, inflight>>

\* ---------------------------------------------------------------- messages
\* the private filter without its second $or branch
QueryOneWay(type, id, me, m) ==
  IF type = "room"
  THEN m.receiver = id /\ m.isRoom = TRUE
  ELSE m.isRoom = FALSE /\ m.senderEmail = me /\ m.receiver = id

\* the filter of GET /messages/:type/:id?me=
Query(type, id, me, m) ==
  IF type = "room"
  THEN m.receiver = id /\ m.isRoom = TRUE
  ELSE /\ m.isRoom = FALSE
       /\ \/ (m.senderEmail = me /\ m.receiver = id)
          \/ (m.senderEmail = id /\ m.receiver = me)

\* insert m after the last element whose time is not later
InsertByTime(s, m) ==
  LET k == Cardinality({i \in 1..Len(s) : s[i].time <= m.time})
  IN SubSeq(s, 1, k) \o <<m>> \o SubSeq(s, k + 1, Len(s))

\* .sort({ time: 1 }): ascending time, equal times in collection order
RECURSIVE SortByTime(_)
SortByTime(s) ==
  IF s = <<>> THEN <<>>
  ELSE InsertByTime(SortByTime(SubSeq(s, 1, Len(s) - 1)), s[Len(s)])

\* Message.find(query).sort({ time: 1 })
FetchConversation(type, id, me) ==
  SortByTime(SelectSeq(messages, LAMBDA m : Query(type, id, me, m)))

\* GET /messages/:type/:id
GetMessages(cap, type, id, me) ==
  /\ HasCapacity(cap)
  /\ ConnectDB
  /\ res' = Response(Request("messages/" \o type, id, me), 200, FetchConversation(type, id, me))
  /\ UNCHANGED <<users, rooms, messages, now, inflight>>

\* messages stored or about to be
MessageLoad ==
  Len(messages) + BagCardinality([r \in {q \in Requests : q.route = "messages"} |-> inflight[r]])

\* POST /messages up to the insert: the document gets time = Date.now()
PostMessageNew(cap, senderEmail, senderName, receiver, text, isRoom) ==
  /\ HasCapacity(cap)
  /\ MessageLoad < MaxMessages
  /\ ConnectDB
  /\ inflight' = Add(inflight, [route |-> "messages",
       doc |-> [senderEmail |-> senderEmail, senderName |-> senderName, receiver |-> receiver,
                text |-> text, isRoom |-> isRoom, time |-> now]])
  /\ UNCHANGED <<users, rooms, messages, now, res>>

\* POST /messages, the insert and the reply
PostMessageInsert(req) ==
  /\ req \in Requests /\ req.route = "messages"
  /\ inflight' = Remove(inflight, req)
  /\ messages' = Append(messages, req.doc)
  /\ res' = Response(Request("messages", req.doc.receiver, req.doc.senderEmail), 200, req.doc)
  /\ UNCHANGED <<isConnected, users, rooms, now>>

\* the server's clock, Date.now()
Tick ==
  /\ now < MaxClock
  /\ now' = now + 1
  /\ UNCHANGED <<isConnected, users, rooms, messages, inflight, res>>

Init ==
  /\ isConnected = 0
  /\ users = <<>>
  /\ rooms = <<>>
  /\ messages = <<>>
  /\ now = 0
  /\ inflight = EmptyBag
  /\ res = Response(Request("", "", ""), 0, "")

\* server.js's room routes, requests overlapping
NextServer ==
  \/ \E name \in RoomNames, creator \in Emails : CreateRoomFind(MaxInFlight, name, creator)
  \/ \E req \in Requests : CreateRoomCreate(req)
  \/ GetRooms(MaxInFlight)
  \/ \E name \in Receivers, email \in Emails : RequestJoinRoom(MaxInFlight, name, email)
  \/ \E name \in Receivers, email \in Emails : ApproveJoin(MaxInFlight, name, email)

SpecServer == Init /\ [][NextServer]_vars

\* part_000's room routes (its createRoom is server.js's without connectDB),
\* requests overlapping
NextPart ==
  \/ \E name \in RoomNames, creator \in Emails : CreateRoomFind(MaxInFlight, name, creator)
  \/ \E req \in Requests : CreateRoomCreate(req)
  \/ \E name \in RoomNames, email \in Emails : RequestJoinFind(MaxInFlight, name, email)
  \/ \E req \in Requests : RequestJoinSave(req)
  \/ \E name \in RoomNames, email \in Emails : ApproveJoinFind(MaxInFlight, name, email)
  \/ \E req \in Requests : ApproveJoinSave(req)
  \/ \E name \in RoomNames : DeleteRoomOne(MaxInFlight, name)
  \/ \E req \in Requests : DeleteRoomMessages(req)

SpecPart == Init /\ [][NextPart]_vars

\* the room routes, one request at a time
NextSeq ==
  \/ \E name \in RoomNames, creator \in Emails : CreateRoomFind(1, name, creator)
  \/ \E req \in Requests : CreateRoomCreate(req)
  \/ GetRooms(1)
  \/ \E name \in RoomNames, email \in Emails : RequestJoinRoom(1, name, email)
  \/ \E name \in RoomNames, email \in Emails : ApproveJoin(1, name, email)
  \/ \E name \in RoomNames, email \in Emails : RequestJoinFind(1, name, email)
  \/ \E req \in Requests : RequestJoinSave(req)
  \/ \E name \in RoomNames, email \in Emails : ApproveJoinFind(1, name, email)
  \/ \E req \in Requests : ApproveJoinSave(req)
  \/ \E name \in RoomNames : DeleteRoomOne(1, name)
  \/ \E req \in Requests : DeleteRoomMessages(req)

SpecSeq == Init /\ [][NextSeq]_vars

\* room creation and deletion with the atomic membership updates, overlapping
NextCreate ==
  \/ \E name \in RoomNames, creator \in Emails : CreateRoomFind(MaxInFlight, name, creator)
  \/ \E req \in Requests : CreateRoomCreate(req)
  \/ GetRooms(MaxInFlight)
  \/ \E name \in RoomNames, email \in Emails : RequestJoinRoom(MaxInFlight, name, email)
  \/ \E name \in RoomNames, email \in Emails : ApproveJoin(MaxInFlight, name, email)
  \/ \E name \in RoomNames : DeleteRoomOne(MaxInFlight, name)
  \/ \E req \in Requests : DeleteRoomMessages(req)

SpecCreate == Init /\ [][NextCreate]_vars

\* the user routes, requests overlapping
NextUsers ==
  \/ \E name \in UserNames, email \in Emails, password \in Passwords :
       RegisterFind(MaxInFlight, name, email, password)
  \/ \E req \in Requests : RegisterCreate(req)
  \/ \E email \in Emails, password \in Passwords : Login(MaxInFlight, email, password)
  \/ GetUsers(MaxInFlight)

SpecUsers == Init /\ [][NextUsers]_vars

\* sending and fetching messages, requests overlapping
NextMessages ==
  \/ \E senderEmail \in Emails, receiver \in Emails, isRoom \in BOOLEAN :
       PostMessageNew(MaxInFlight, senderEmail, "N", receiver, "hi", isRoom)
  \/ \E receiver \in RoomNames, isRoom \in BOOLEAN :
       PostMessageNew(MaxInFlight, "a", "N", receiver, "hi", isRoom)
  \/ \E req \in Requests : PostMessageInsert(req)
  \/ \E id \in RoomNames : GetMessages(MaxInFlight, "room", id, "a")
  \/ \E id \in Emails, me \in Emails : id # me /\ GetMessages(MaxInFlight, "private", id, me)
  \/ Tick

SpecMessages == Init /\ [][NextMessages]_vars

\* room deletion with its message cascade, requests overlapping
NextDelete ==
  \/ \E name \in RoomNames : CreateRoomFind(MaxInFlight, name, "a")
  \/ \E req \in Requests : CreateRoomCreate(req)
  \/ GetRooms(MaxInFlight)
  \/ \E receiver \in {"g", "h"}, isRoom \in BOOLEAN :
       PostMessageNew(MaxInFlight, "a", "N", receiver, "hi", isRoom)
  \/ \E req \in Requests : PostMessageInsert(req)
  \/ \E name \in {"g", "h"} : DeleteRoomOne(MaxInFlight, name)
  \/ \E req \in Requests : DeleteRoomMessages(req)

SpecDelete == Init /\ [][NextDelete]_vars

\* every route of both revisions, one request at a time
Next ==
  \/ \E name \in UserNames, email \in Emails, password \in {"p"} :
       RegisterFind(1, name, email, password)
  \/ \E req \in Requests : RegisterCreate(req)
  \/ \E email \in Emails, password \in {"p"} : Login(1, email, password)
  \/ GetUsers(1)
  \/ \E name \in RoomNames, creator \in {"a"} : CreateRoomFind(1, name, creator)
  \/ \E req \in Requests : CreateRoomCreate(req)
  \/ GetRooms(1)
  \/ \E name \in RoomNames, email \in {"b"} : RequestJoinRoom(1, name, email)
  \/ \E name \in RoomNames, email \in {"b"} : ApproveJoin(1, name, email)
  \/ \E name \in RoomNames, email \in {"b"} : RequestJoinFind(1, name, email)
  \/ \E req \in Requests : RequestJoinSave(req)
  \/ \E name \in RoomNames, email \in {"b"} : ApproveJoinFind(1, name, email)
  \/ \E req \in Requests : ApproveJoinSave(req)
  \/ \E name \in RoomNames : DeleteRoomOne(1, name)
  \/ \E req \in Requests : DeleteRoomMessages(req)
  \/ \E receiver \in {"g", "b"}, isRoom \in BOOLEAN :
       PostMessageNew(1, "a", "N", receiver, "hi", isRoom)
  \/ \E req \in Requests : PostMessageInsert(req)
  \/ \E type \in {"room", "private"}, id \in {"g", "b"} : GetMessages(1, type, id, "a")

Spec == Init /\ [][Next]_vars

\* ---------------------------------------------------------------- properties
RoomsNamed(name) == {i \in 1..Len(rooms) : rooms[i].name = name}
UsersWith(email) == {i \in 1..Len(users) : users[i].email = email}

\* C1: in every reachable state the members and the joinRequests of every
\* room are disjoint; a requestJoin for a member never adds it to joinRequests
C1_MembersRequestsDisjoint ==
  \A i \in 1..Len(rooms) : Range(rooms[i].members) \cap Range(rooms[i].joinRequests) = {}

\* this step sends the reply of an approveJoin(r, e) request
ApproveJoinReplies(r, e) ==
  \/ ApproveJoin(1, r, e)
  \/ ApproveJoinFind(1, r, e) /\ RoomFindOne(r) = NoDoc
  \/ \E req \in Requests :
       req.route = "approveJoin" /\ req.room.name = r /\ req.email = e /\ ApproveJoinSave(req)

\* C2: when requestJoin(r, e) on an existing room has been answered with
\* success and approveJoin(r, e) is the next request answered, then after it
\* e is in members(r) and e is not in joinRequests(r)
C2_RequestThenApprove ==
  [][\A r \in RoomNames, e \in Emails :
       (/\ res.req = Request("requestJoinRoom", r, e) /\ res.status = 200
        /\ RoomFindOne(r) # NoDoc
        /\ ApproveJoinReplies(r, e))
       => (/\ res'.status = 200
           /\ RoomFindOne(r)' # NoDoc
           /\ Includes(RoomFindOne(r)'.members, e)
           /\ ~Includes(RoomFindOne(r)'.joinRequests, e))]_vars

\* C2, its case: requestJoin("g", "b") was answered with success, b is pending,
\* and the approveJoin("g", "b") that follows has loaded the room
C2_Witness ==
  /\ res.req = Request("requestJoinRoom", "g", "b") /\ res.status = 200
  /\ \E req \in Requests : req.route = "approveJoin" /\ req.email = "b"
                           /\ Includes(req.room.joinRequests, "b")

\* C3: an approveJoin(r, e) answered right after an approveJoin(r, e) leaves
\* users, rooms and messages as the first one left them
C3_ApproveJoinIdempotent ==
  [][\A r \in RoomNames, e \in Emails :
       (res.req = Request("approveJoin", r, e) /\ ApproveJoinReplies(r, e))
       => (users' = users /\ rooms' = rooms /\ messages' = messages)]_vars

\* C3, its case: approveJoin("g", "b") made b a member and a second
\* approveJoin("g", "b") has loaded the room
C3_Witness ==
  /\ res.req = Request("approveJoin", "g", "b") /\ res.status = 200
  /\ RoomFindOne("g") # NoDoc /\ Includes(RoomFindOne("g").members, "b")
  /\ \E req \in Requests : req.route = "approveJoin" /\ req.email = "b"

\* C4: a register for a registered email is answered 400 and leaves the users
\* unchanged, and no two users ever share an email, however two registers of
\* one email overlap
C4_RegisterOnce ==
  /\ [](\A e \in Emails : Cardinality(UsersWith(e)) <= 1)
  /\ [][\A n \in UserNames, e \in Emails, p \in Passwords :
          (UsersWith(e) # {} /\ RegisterFind(MaxInFlight, n, e, p))
          => (res'.status = 400 /\ res'.req = Request("register", "", e) /\ users' = users)]_vars

\* C4, its case: two registers of "a" overlapped; the later insert was
\* rejected and one record is stored
C4_Witness ==
  /\ res.req = Request("register", "", "a") /\ res.status = 500
  /\ Cardinality(UsersWith("a")) = 1

IsPrivate(m) == m.isRoom = FALSE
RoomAddressed(name, m) == m.receiver = name /\ m.isRoom = TRUE

\* C5: deleteRoom(r) takes r out of the rooms, where only a createRoom can
\* put it back, and when it replies no room message to r is left while the
\* private messages and the room messages of other rooms are all kept
C5_DeleteRoomCascade ==
  /\ [][\A r \in Receivers : DeleteRoomOne(MaxInFlight, r) => RoomsNamed(r)' = {}]_vars
  /\ [][\A r \in Receivers : (RoomsNamed(r) = {} /\ RoomsNamed(r)' # {})
          => \E req \in Requests :
               req.route = "createRoom" /\ req.name = r /\ CreateRoomCreate(req)]_vars
  /\ [][\A req \in Requests : DeleteRoomMessages(req) =>
          /\ \A i \in 1..Len(messages') : ~RoomAddressed(req.name, messages'[i])
          /\ SelectSeq(messages', IsPrivate) = SelectSeq(messages, IsPrivate)
          /\ \A other \in Receivers \ {req.name} :
               SelectSeq(messages', LAMBDA m : RoomAddressed(other, m))
                 = SelectSeq(messages, LAMBDA m : RoomAddressed(other, m))
          /\ Len(messages') = Len(messages) -
               Cardinality({i \in 1..Len(messages) : RoomAddressed(req.name, messages[i])})]_vars

\* C5, its case: deleteRoom("g") has replied, g is gone and a private
\* message whose receiver is "g" is still stored
C5_Witness ==
  /\ res.req = Request("deleteRoom", "g", "") /\ res.status = 200
  /\ RoomsNamed("g") = {}
  /\ \E i \in 1..Len(messages) : messages[i].receiver = "g" /\ messages[i].isRoom = FALSE

\* the messages of the private conversation of x and y, of the room id
InConversation(type, id, me, m) ==
  IF type = "room"
  THEN m.isRoom = TRUE /\ m.receiver = id
  ELSE m.isRoom = FALSE /\ <<m.senderEmail, m.receiver>> \in {<<me, id>>, <<id, me>>}

Ascending(s) == \A i, j \in 1..Len(s) : i < j => s[i].time <= s[j].time

\* s holds exactly the messages that satisfy P, each as often as stored
ExactlyThose(s, type, id, me) ==
  /\ \A i \in 1..Len(s) : InConversation(type, id, me, s[i])
  /\ \A m \in Range(messages) \cup Range(s) :
       InConversation(type, id, me, m) => Count(s, m) = Count(messages, m)

\* C6: GET /messages returns exactly the messages of the conversation in
\* ascending time, and the private conversation of A and B is the same sequence
\* whichever of them asks
C6_FetchConversation ==
  [][\A type \in {"room", "private"} :
       LET id == res'.req.name
           me == res'.req.email
       IN (res'.req.route = "messages/" \o type /\ GetMessages(MaxInFlight, type, id, me)) =>
            /\ res'.status = 200
            /\ ExactlyThose(res'.body, type, id, me)
            /\ Ascending(res'.body)
            /\ type = "private" => res'.body = FetchConversation("private", me, id)]_vars

\* C6, its case: a private conversation with a message in each direction was
\* fetched, and the later one had been stored first
C6_Witness ==
  /\ res.req.route = "messages/private" /\ res.status = 200
  /\ Len(res.body) = 2 /\ res.body[1].senderEmail # res.body[2].senderEmail
  /\ Len(messages) = 2 /\ messages[1].time > messages[2].time

\* C7: createRoom on a free name stores a room with members = [creator] and
\* no joinRequests; on a taken name it is answered 400 and leaves the rooms
\* unchanged; no two rooms ever share a name
C7_CreateRoomOnce ==
  /\ [](\A name \in RoomNames : Cardinality(RoomsNamed(name)) <= 1)
  /\ [][\A name \in RoomNames, creator \in Emails :
          (RoomsNamed(name) # {} /\ CreateRoomFind(MaxInFlight, name, creator))
          => (res'.status = 400 /\ rooms' = rooms)]_vars
  /\ [][\A req \in Requests :
          (req.route = "createRoom" /\ RoomsNamed(req.name) = {} /\ CreateRoomCreate(req))
          => (/\ res'.status = 200
              /\ Len(rooms') = Len(rooms) + 1
              /\ RoomFindOne(req.name)'.creator = req.creator
              /\ RoomFindOne(req.name)'.members = <<req.creator>>
              /\ RoomFindOne(req.name)'.joinRequests = <<>>)]_vars

\* C7, its case: a createRoom of the taken name "g" was answered 400 and the
\* room still has its creator a, its approved member b and no other
C7_Witness ==
  /\ res.req = Request("createRoom", "g", "b") /\ res.status = 400
  /\ Cardinality(RoomsNamed("g")) = 1
  /\ RoomFindOne("g").creator = "a" /\ RoomFindOne("g").members = <<"a", "b">>

IsPrefix(s, t) == Len(s) <= Len(t) /\ SubSeq(t, 1, Len(s)) = s

\* C8: the messages change only by a sendMessage appending one message or by a
\* deleteRoom(name) removing room messages to name; no other route changes
\* them, stored messages keep their fields, private messages are never removed
C8_MessagesAppendOnly ==
  [][/\ (messages' # messages) =>
          \/ \E req \in Requests : PostMessageInsert(req) /\ IsPrefix(messages, messages')
                                   /\ Len(messages') = Len(messages) + 1
          \/ \E req \in Requests :
               /\ DeleteRoomMessages(req)
               /\ messages' = SelectSeq(messages, LAMBDA m : ~RoomAddressed(req.name, m))
     /\ SelectSeq(messages, IsPrivate) = SubSeq(SelectSeq(messages', IsPrivate), 1,
                                                Len(SelectSeq(messages, IsPrivate)))]_vars

\* C8, its case: after a sendMessage and a deleteRoom("g") that removed a room
\* message, a register is answered and the private message to "g" is still there
C8_Witness ==
  /\ res.req.route = "register" /\ res.status = 200
  /\ RoomsNamed("g") = {}
  /\ messages = <<[senderEmail |-> "a", senderName |-> "N", receiver |-> "g",
                   text |-> "hi", isRoom |-> FALSE, time |-> 0]>>

\* C9: when every request has been answered and the last answer was a
\* successful approveJoin(r, e), e is in members(r) and not in joinRequests(r)
C9_ApprovedIsMemberOnly ==
  (inflight = EmptyBag /\ res.req.route = "approveJoin" /\ res.status = 200
     /\ RoomFindOne(res.req.name) # NoDoc)
  => /\ Includes(RoomFindOne(res.req.name).members, res.req.email)
     /\ ~Includes(RoomFindOne(res.req.name).joinRequests, res.req.email)

\* C10: no room's members or joinRequests holds an email more than once
C10_NoDuplicateEmails ==
  \A i \in 1..Len(rooms), e \in Emails :
    Count(rooms[i].members, e) <= 1 /\ Count(rooms[i].joinRequests, e) <= 1

====
